---- MODULE Spec2Model ----
(***************************************************************************)
(* Static Website Optimizer Agent.                                         *)
(*                                                                         *)
(* analyzer.js (the four rule groups checkSEO, checkAccessibility,         *)
(* checkStructure, checkPerformance over a parsed document) and app.js     *)
(* (the UI controller: runAudit and its suspension points, the timeline,   *)
(* renderResults, resetView, handleFetchUrl).                              *)
(*                                                                         *)
(* Text is a sequence of one-character strings, so that trim, lower-casing *)
(* and entity escaping/decoding are computed character by character.       *)
(***************************************************************************)
EXTENDS Integers, Sequences, FiniteSets, TLC

(***************************************************************************)
(* Bounds of the explored inputs.                                          *)
(***************************************************************************)
MaxHeadings == 3
MaxImgs == 3
MaxLinks == 2
MaxScripts == 2
MaxShortTitle == 11
MaxAudits == 2

(***************************************************************************)
(* Thresholds of the rules.                                                *)
(***************************************************************************)
TitleMin == 10
TitleMax == 70
StyleMax == 10
ImageMax == 30
ScriptMax == 2000

(***************************************************************************)
(* app.js: the state of the page.                                          *)
(*   htmlInput        value of the textarea                                *)
(*   fetchBtn, fetchError, fetchPc   the fetch button, its error line and  *)
(*                    where handleFetchUrl is suspended                    *)
(*   isProcessing     the module variable                                  *)
(*   runBtn           disabled and the opacity-75/cursor-not-allowed style *)
(*   view             the hidden class of the three panes                  *)
(*   timeline         children of the timeline element                     *)
(*   issuesContainer  what renderResults painted                           *)
(*   audits           the invocations of runAudit: where each is suspended *)
(*                    and its local variables                              *)
(*   reported         the argument of the last renderResults call, with    *)
(*                    the markup it was computed from and the number of    *)
(*                    calls of each checker made by that invocation        *)
(***************************************************************************)
VARIABLES htmlInput, fetchBtn, fetchError, fetchPc, isProcessing, runBtn,
          view, timeline, issuesContainer, audits, reported

vars == <<htmlInput, fetchBtn, fetchError, fetchPc, isProcessing, runBtn,
          view, timeline, issuesContainer, audits, reported>>

(***************************************************************************)
(* Text helpers: String.prototype.trim, toLowerCase, Array.includes.       *)
(***************************************************************************)
WhiteSpace == {" ", "\t", "\n"}

Upper == <<"A","B","C","D","E","F","G","H","I","J","K","L","M",
           "N","O","P","Q","R","S","T","U","V","W","X","Y","Z">>
Lower == <<"a","b","c","d","e","f","g","h","i","j","k","l","m",
           "n","o","p","q","r","s","t","u","v","w","x","y","z">>

LowerChar(c) ==
    IF \E i \in 1..Len(Upper) : Upper[i] = c
    THEN Lower[CHOOSE i \in 1..Len(Upper) : Upper[i] = c]
    ELSE c

toLowerCase(s) == [i \in 1..Len(s) |-> LowerChar(s[i])]

RECURSIVE trimStart(_)
trimStart(s) ==
    IF s # <<>> /\ Head(s) \in WhiteSpace THEN trimStart(Tail(s)) ELSE s

RECURSIVE trimEnd(_)
trimEnd(s) ==
    IF s # <<>> /\ s[Len(s)] \in WhiteSpace
    THEN trimEnd(SubSeq(s, 1, Len(s) - 1))
    ELSE s

trim(s) == trimEnd(trimStart(s))

includes(arr, x) == \E i \in 1..Len(arr) : arr[i] = x

StartsWith(s, p) == Len(s) >= Len(p) /\ SubSeq(s, 1, Len(p)) = p

Drop(s, n) == SubSeq(s, n + 1, Len(s))

(***************************************************************************)
(* title.innerHTML serialises the title's text with &, < and > escaped;    *)
(* assigning it to tempDiv.innerHTML parses it again and textContent       *)
(* reads the decoded text.                                                 *)
(***************************************************************************)
AmpEntity == <<"&","a","m","p",";">>
LtEntity == <<"&","l","t",";">>
GtEntity == <<"&","g","t",";">>

EscapeChar(c) ==
    CASE c = "&" -> AmpEntity
      [] c = "<" -> LtEntity
      [] c = ">" -> GtEntity
      [] OTHER   -> <<c>>

\* The concatenation of parts[lo..hi].
RECURSIVE Concat(_, _, _)
Concat(parts, lo, hi) ==
    IF lo > hi THEN <<>>
    ELSE IF lo = hi THEN parts[lo]
    ELSE LET mid == (lo + hi) \div 2
         IN  Concat(parts, lo, mid) \o Concat(parts, mid + 1, hi)

\* Serialisation of a text node: every character, escaped.
innerHTML(text) ==
    Concat([i \in 1..Len(text) |-> EscapeChar(text[i])], 1, Len(text))

Entities == {AmpEntity, LtEntity, GtEntity}

EntityAt(markup, i) ==
    {e \in Entities : /\ i + Len(e) - 1 <= Len(markup)
                      /\ \A k \in 1..Len(e) : markup[i + k - 1] = e[k]}

\* Position i lies in a character reference that began before it.  (A
\* reference holds no & after its first character, so none begins inside
\* another.)
InsideEntity(markup, i) ==
    \E j \in (i - Len(AmpEntity))..(i - 1) :
        j >= 1 /\ \E e \in EntityAt(markup, j) : i < j + Len(e)

\* The tokenizer's output at position i: the referenced character for a
\* character reference, the character itself otherwise.
DecodedAt(markup, i) ==
    IF InsideEntity(markup, i) THEN <<>>
    ELSE IF AmpEntity \in EntityAt(markup, i) THEN <<"&">>
    ELSE IF LtEntity \in EntityAt(markup, i) THEN <<"<">>
    ELSE IF GtEntity \in EntityAt(markup, i) THEN <<">">>
    ELSE <<markup[i]>>

\* Parsing the markup of a text node and reading its text back.
textContent(markup) ==
    Concat([i \in 1..Len(markup) |-> DecodedAt(markup, i)], 1, Len(markup))

(***************************************************************************)
(* Issue records.  A description is its template with the interpolated     *)
(* values beside it.                                                       *)
(***************************************************************************)
Issue(cat, sev, ttl, tmpl, vals, sugg) ==
    [category |-> cat, severity |-> sev, title |-> ttl,
     description |-> [template |-> tmpl, values |-> vals],
     suggestion |-> sugg]

Categories == <<"SEO", "Accessibility", "Structure", "Performance">>

(***************************************************************************)
(* The document tree, as the queries of the analyzer see it:               *)
(*   hasHead    doc.head is not null                                       *)
(*   titles     text of the title elements, in document order              *)
(*   metas      the name attributes of the meta elements                   *)
(*   canonical  a link[rel=canonical] is present                           *)
(*   imgs       the img elements: alt is "none" (no attribute), "empty"    *)
(*              (alt="") or "text"                                         *)
(*   links      textContent of the a elements                              *)
(*   landmarks  the landmark tags that occur                               *)
(*   headings   tagName of the h1..h6 elements, in document order          *)
(*   styled     number of elements with a style attribute                  *)
(*   scripts    the script elements: inHead, src, async, defer and the     *)
(*              length of the text                                         *)
(***************************************************************************)
HeadingTags == <<"H1", "H2", "H3", "H4", "H5", "H6">>

\* parseInt(heading.tagName.substring(1))
parseLevel(tagName) == CHOOSE n \in 1..Len(HeadingTags) : HeadingTags[n] = tagName

Count(s, Test(_)) == Len(SelectSeq(s, Test))

(***************************************************************************)
(* analyzer.checkSEO                                                       *)
(***************************************************************************)
MissingTitle ==
    Issue("SEO", "error", "Missing <title> tag",
          "The document does not have a <title> element.", <<>>,
          "Add a <title> element to the <head> section.")

TitleTooShort(n) ==
    Issue("SEO", "warning", "Title too short",
          "Title is only ${titleText.length} characters long.", <<n>>,
          "Expand your title to be descriptive (aim for 30-60 characters).")

TitleTooLong(n) ==
    Issue("SEO", "warning", "Title too long",
          "Title is ${titleText.length} characters long.", <<n>>,
          "Shorten your title to ensure it displays fully in search results (max ~60-70 chars).")

MissingDescription ==
    Issue("SEO", "error", "Missing Meta Description",
          "No <meta name=\"description\"> tag found.", <<>>,
          "Add a meta description to summarize your page for search engines.")

MissingViewport ==
    Issue("SEO", "error", "Missing Viewport Meta Tag",
          "No <meta name=\"viewport\"> tag found.", <<>>,
          "Add <meta name=\"viewport\" content=\"width=device-width, initial-scale=1.0\"> for mobile responsiveness.")

\* Faulty variant of titleText: the serialised markup measured, undecoded.
titleText_raw(title) == trim(innerHTML(title))

\* tempDiv.innerHTML = title.innerHTML; tempDiv.textContent.trim() || ''
titleText(title) == trim(textContent(innerHTML(title)))

titleChecks(doc) ==
    IF doc.titles = <<>>
    THEN <<MissingTitle>>
    ELSE LET n == Len(titleText(Head(doc.titles)))
         IN  IF n < TitleMin THEN <<TitleTooShort(n)>>
             ELSE IF n > TitleMax THEN <<TitleTooLong(n)>>
             ELSE <<>>

descriptionCheck(doc) ==
    IF "description" \notin doc.metas THEN <<MissingDescription>> ELSE <<>>

viewportCheck(doc) ==
    IF "viewport" \notin doc.metas THEN <<MissingViewport>> ELSE <<>>

\* Faulty variant of checkSEO: the issues array kept across calls instead of
\* created by each call, so a call starts from what the last report held.
checkSEO_shared(doc) ==
    (IF reported = <<>> THEN <<>>
     ELSE LET seo(i) == i.category = "SEO" IN SelectSeq(reported[1].issues, seo))
    \o titleChecks(doc) \o descriptionCheck(doc) \o viewportCheck(doc)

\* (The canonical link is looked up on line 26 and never read.)
checkSEO(doc) == titleChecks(doc) \o descriptionCheck(doc) \o viewportCheck(doc)

(***************************************************************************)
(* analyzer.checkAccessibility                                             *)
(***************************************************************************)
MissingAlt(n) ==
    Issue("Accessibility", "error", "Images missing Alt text",
          "Found ${missingAltCount} <img> tag(s) without an alt attribute.", <<n>>,
          "Add descriptive alt attributes to all images for screen readers.")

GenericLinks(n) ==
    Issue("Accessibility", "warning", "Non-descriptive Link Text",
          "Found ${genericLinkCount} link(s) satisfying generic text like \"click here\".", <<n>>,
          "Use descriptive text for links that explains their destination (e.g., \"Read more about pricing\").")

NoLandmarks ==
    Issue("Accessibility", "info", "No Semantic Landmarks Found",
          "Document does not use <main>, <nav>, <header>, or <footer>.", <<>>,
          "Use semantic HTML5 landmark elements to improve navigation for screen readers.")

genericTerms ==
    << <<"c","l","i","c","k"," ","h","e","r","e">>,
       <<"r","e","a","d"," ","m","o","r","e">>,
       <<"m","o","r","e">>,
       <<"l","i","n","k">>,
       <<"h","e","r","e">> >>

landmarks == <<"main", "nav", "header", "footer", "aside">>

\* Faulty variant of lacksAlt: !img.alt, which an empty alt satisfies too.
lacksAlt_falsy(img) == img.alt \in {"none", "empty"}

\* !img.hasAttribute('alt')
lacksAlt(img) == img.alt = "none"

missingAltCount(doc) == Count(doc.imgs, lacksAlt)

\* Faulty variant of isGeneric: a generic term anywhere in the text.
isGeneric_substring(text) ==
    LET t == toLowerCase(trim(text))
    IN  \E g \in 1..Len(genericTerms) : \E lo \in 1..Len(t) :
            StartsWith(Drop(t, lo - 1), genericTerms[g])

\* genericTerms.includes(link.textContent.trim().toLowerCase())
isGeneric(text) == includes(genericTerms, toLowerCase(trim(text)))

genericLinkCount(doc) == Count(doc.links, isGeneric)

foundLandmarks(doc) ==
    LET present(tag) == tag \in doc.landmarks IN SelectSeq(landmarks, present)

altCheck(doc) ==
    IF missingAltCount(doc) > 0 THEN <<MissingAlt(missingAltCount(doc))>> ELSE <<>>

linkCheck(doc) ==
    IF genericLinkCount(doc) > 0 THEN <<GenericLinks(genericLinkCount(doc))>> ELSE <<>>

\* Faulty variant of landmarkCheck: the test inverted.
landmarkCheck_inverted(doc) ==
    IF Len(foundLandmarks(doc)) # 0 THEN <<NoLandmarks>> ELSE <<>>

landmarkCheck(doc) ==
    IF Len(foundLandmarks(doc)) = 0 THEN <<NoLandmarks>> ELSE <<>>

checkAccessibility(doc) == altCheck(doc) \o linkCheck(doc) \o landmarkCheck(doc)

(***************************************************************************)
(* analyzer.checkStructure                                                 *)
(***************************************************************************)
MissingH1 ==
    Issue("Structure", "error", "Missing H1 Heading",
          "No <h1> tag found on the page.", <<>>,
          "Add exactly one <h1> tag to describe the main topic of the page.")

MultipleH1(n) ==
    Issue("Structure", "warning", "Multiple H1 Headings",
          "Found ${h1s.length} <h1> tags.", <<n>>,
          "Best practice is to have only one <h1> per page representing the main title.")

SkippedLevels ==
    Issue("Structure", "warning", "Skipped Heading Levels",
          "Heading levels should not be skipped (e.g., going from H2 to H4).", <<>>,
          "Ensure your heading hierarchy is sequential (e.g., H2 -> H3).")

InlineStyles(n) ==
    Issue("Structure", "info", "Heavy use of Inline Styles",
          "Found ${elementsWithStyle.length} elements with inline 'style' attributes.", <<n>>,
          "Move styles to valid CSS classes or an external stylesheet for better maintainability.")

\* doc.querySelectorAll('h1')
h1s(doc) == LET isH1(tag) == tag = "H1" IN SelectSeq(doc.headings, isH1)

\* Faulty variant of h1Checks: any h1 at all reported as multiple.
h1Checks_any(doc) ==
    IF Len(h1s(doc)) = 0 THEN <<MissingH1>>
    ELSE IF Len(h1s(doc)) >= 1 THEN <<MultipleH1(Len(h1s(doc)))>>
    ELSE <<>>

h1Checks(doc) ==
    IF Len(h1s(doc)) = 0 THEN <<MissingH1>>
    ELSE IF Len(h1s(doc)) > 1 THEN <<MultipleH1(Len(h1s(doc)))>>
    ELSE <<>>

\* let previousLevel = 0
InitialLevel == 0

\* The for loop over allHeadings, from element i on, with its break.
RECURSIVE scanHeadings(_, _, _)
scanHeadings(allHeadings, i, previousLevel) ==
    IF i > Len(allHeadings) THEN FALSE
    ELSE LET currentLevel == parseLevel(allHeadings[i])
         IN  IF currentLevel > previousLevel + 1 THEN TRUE
             ELSE scanHeadings(allHeadings, i + 1, currentLevel)

\* Faulty variant of skippedLevels: the scan starts from level 1, so a first
\* heading is never compared with "no heading seen".
skippedLevels_fromOne(doc) == scanHeadings(doc.headings, 1, 1)

skippedLevels(doc) == scanHeadings(doc.headings, 1, InitialLevel)

headingOrderCheck(doc) == IF skippedLevels(doc) THEN <<SkippedLevels>> ELSE <<>>

inlineStyleCheck(doc) ==
    IF doc.styled > StyleMax THEN <<InlineStyles(doc.styled)>> ELSE <<>>

checkStructure(doc) == h1Checks(doc) \o headingOrderCheck(doc) \o inlineStyleCheck(doc)

(***************************************************************************)
(* analyzer.checkPerformance                                               *)
(***************************************************************************)
HighImageCount(n) ==
    Issue("Performance", "warning", "High Image Count",
          "Page contains ${images.length} images.", <<n>>,
          "Lazy load images and consider if all are necessary for the initial view.")

LargeInlineScripts(n) ==
    Issue("Performance", "info", "Large Inline Scripts",
          "Found ${largeScripts} large inline script block(s).", <<n>>,
          "Move large JavaScript logic to external .js files to take advantage of browser caching.")

BlockingScripts(n) ==
    Issue("Performance", "warning", "Render-blocking Scripts",
          "Found ${blockingScripts} script(s) in <head> that are not async or defer.", <<n>>,
          "Add \"defer\" or \"async\" attributes to scripts in the <head> to prevent blocking page render.")

imageCountCheck(doc) ==
    IF Len(doc.imgs) > ImageMax THEN <<HighImageCount(Len(doc.imgs))>> ELSE <<>>

\* doc.querySelectorAll('script:not([src])') with textContent.length > 2000
largeScripts(doc) ==
    LET large(script) == ~script.src /\ script.length > ScriptMax
    IN  Count(doc.scripts, large)

largeScriptCheck(doc) ==
    IF largeScripts(doc) > 0 THEN <<LargeInlineScripts(largeScripts(doc))>> ELSE <<>>

\* Faulty variant of headScripts: doc.querySelectorAll('script[src]').
headScripts_anywhere(doc) ==
    LET withSrc(script) == script.src IN SelectSeq(doc.scripts, withSrc)

\* doc.head ? doc.head.querySelectorAll('script[src]') : []
headScripts(doc) ==
    LET inHeadWithSrc(script) == script.inHead /\ script.src
    IN  IF doc.hasHead THEN SelectSeq(doc.scripts, inHeadWithSrc) ELSE <<>>

\* !script.hasAttribute('async') && !script.hasAttribute('defer')
isBlocking(script) == ~script.async /\ ~script.defer

blockingScripts(doc) == Count(headScripts(doc), isBlocking)

blockingCheck(doc) ==
    IF blockingScripts(doc) > 0 THEN <<BlockingScripts(blockingScripts(doc))>> ELSE <<>>

checkPerformance(doc) == imageCountCheck(doc) \o largeScriptCheck(doc) \o blockingCheck(doc)

(***************************************************************************)
(* analyzer.parseHtml.  The markup in the textarea is identified with the  *)
(* document DOMParser builds from it; blank is markup that trims to ''.    *)
(***************************************************************************)
parseHtml(html) == html.dom

Slots == 1..MaxAudits

PhaseText ==
    <<"Parsing HTML Structure...", "Running SEO Analysis...",
      "Checking Accessibility...", "Reviewing HTML Structure...",
      "Scanning for Performance...", "Compiling Report...">>

NoCalls == [seo |-> 0, a11y |-> 0, structure |-> 0, perf |-> 0]

\* An invocation of runAudit that is not running.
Idle ==
    [pc |-> "idle", phase |-> 0, html |-> <<>>, doc |-> <<>>,
     seoIssues |-> <<>>, a11yIssues |-> <<>>, structureIssues |-> <<>>,
     perfIssues |-> <<>>, calls |-> NoCalls]

(***************************************************************************)
(* updateTimeline(text, status)                                            *)
(***************************************************************************)
updateTimeline(tl, text, status) ==
    IF ~\E i \in 1..Len(tl) : tl[i].text = text
    THEN Append(tl, [text |-> text, class |-> "active"])
    ELSE LET i == CHOOSE j \in 1..Len(tl) :
                      /\ tl[j].text = text
                      /\ \A k \in 1..(j - 1) : tl[k].text # text
         IN  IF status = 1
             THEN [tl EXCEPT ![i].class = "completed"]
             ELSE tl

(***************************************************************************)
(* getSeverityColor, getSeverityBadge and the cards of renderResults       *)
(***************************************************************************)
getSeverityColor(severity) ==
    CASE severity = "error"   -> "border-l-red-500"
      [] severity = "warning" -> "border-l-amber-500"
      [] OTHER                -> "border-l-blue-500"

getSeverityBadge(severity) ==
    CASE severity = "error"   -> "bg-red-100 text-red-700"
      [] severity = "warning" -> "bg-amber-100 text-amber-800"
      [] OTHER                -> "bg-blue-100 text-blue-700"

Card(issue) ==
    [title |-> issue.title, severity |-> issue.severity,
     description |-> issue.description, suggestion |-> issue.suggestion,
     color |-> getSeverityColor(issue.severity),
     badge |-> getSeverityBadge(issue.severity)]

\* issues.filter(i => i.category === cat)
catIssues(issues, cat) ==
    LET inCat(i) == i.category = cat IN SelectSeq(issues, inCat)

Section(issues, cat) ==
    [category |-> cat, count |-> Len(catIssues(issues, cat)),
     cards |-> [k \in 1..Len(catIssues(issues, cat)) |-> Card(catIssues(issues, cat)[k])]]

\* categories.forEach: one section per category that has issues
RECURSIVE Sections(_, _)
Sections(issues, c) ==
    IF c > Len(Categories) THEN <<>>
    ELSE (IF Len(catIssues(issues, Categories[c])) > 0
          THEN <<Section(issues, Categories[c])>>
          ELSE <<>>) \o Sections(issues, c + 1)

EmptyContainer == [banner |-> FALSE, sections |-> <<>>]

Painted(issues) ==
    IF Len(issues) = 0
    THEN [banner |-> TRUE, sections |-> <<>>]
    ELSE [banner |-> FALSE, sections |-> Sections(issues, 1)]

(***************************************************************************)
(* startProcessing, renderResults, resetView                               *)
(***************************************************************************)
\* Faulty variant of startProcessing: the run button left as it was.
startProcessing_enabled ==
    /\ isProcessing' = TRUE
    /\ view' = [placeholderHidden |-> TRUE, resultsHidden |-> TRUE,
                processingHidden |-> FALSE]
    /\ UNCHANGED runBtn

startProcessing ==
    /\ isProcessing' = TRUE
    /\ view' = [placeholderHidden |-> TRUE, resultsHidden |-> TRUE,
                processingHidden |-> FALSE]
    /\ runBtn' = [disabled |-> TRUE, dimmed |-> TRUE]

renderResults(issues) ==
    /\ view' = [view EXCEPT !.processingHidden = TRUE, !.resultsHidden = FALSE]
    /\ runBtn' = [disabled |-> FALSE, dimmed |-> FALSE]
    /\ isProcessing' = FALSE
    /\ issuesContainer' = Painted(issues)

\* Faulty variant of resetView: the placeholder left hidden.
resetView_noPlaceholder ==
    /\ view' = [view EXCEPT !.resultsHidden = TRUE, !.processingHidden = TRUE]
    /\ runBtn' = [disabled |-> FALSE, dimmed |-> FALSE]
    /\ UNCHANGED isProcessing

resetView ==
    /\ view' = [placeholderHidden |-> FALSE, resultsHidden |-> TRUE,
                processingHidden |-> TRUE]
    /\ runBtn' = [disabled |-> FALSE, dimmed |-> FALSE]
    /\ UNCHANGED isProcessing

(***************************************************************************)
(* The documents explored.  Each family varies what one rule reads, on     *)
(* top of a document that passes every rule and of the minimal document;   *)
(* Mixed varies all the rules together.                                    *)
(***************************************************************************)
Rep(c, n) == [i \in 1..n |-> c]

Seqs(S, n) == UNION {[1..k -> S] : k \in 0..n}

\* <html><head></head><body></body></html>
MinimalDoc ==
    [hasHead |-> TRUE, titles |-> <<>>, metas |-> {}, canonical |-> FALSE,
     imgs |-> <<>>, links |-> <<>>, landmarks |-> {}, headings |-> <<>>,
     styled |-> 0, scripts |-> <<>>]

CleanDoc ==
    [hasHead |-> TRUE, titles |-> <<Rep("a", TitleMin)>>,
     metas |-> {"description", "viewport"}, canonical |-> TRUE,
     imgs |-> <<[alt |-> "text"]>>, links |-> <<<<"D","o","c","s">>>>,
     landmarks |-> {"main"}, headings |-> <<"H1", "H2">>,
     styled |-> StyleMax, scripts |-> <<>>]

Bases == {MinimalDoc, CleanDoc}

\* A title of k characters once trimmed, its first one c, padded or not.
TitleOf(k, c, padded) ==
    LET body == IF k = 0 THEN <<>> ELSE <<c>> \o Rep("a", k - 1)
    IN  IF padded THEN <<" ">> \o body \o <<"\n">> ELSE body

TitleLengths == (0..MaxShortTitle) \cup ((TitleMax - 1)..(TitleMax + 1))

TitleTexts ==
    {TitleOf(k, c, padded) : k \in TitleLengths, c \in {"a", "&", "<"},
                             padded \in BOOLEAN}

TitleDocs ==
    {[b EXCEPT !.titles = <<t>>] : b \in Bases, t \in TitleTexts}
    \cup {[b EXCEPT !.titles = <<>>] : b \in Bases}

HeadingDocs ==
    {[CleanDoc EXCEPT !.headings = h] :
        h \in Seqs({HeadingTags[n] : n \in 1..Len(HeadingTags)}, MaxHeadings)}

AltKinds == {"none", "empty", "text"}

ImgDocs ==
    {[CleanDoc EXCEPT !.imgs = i] : i \in Seqs([alt : AltKinds], MaxImgs)}
    \cup {[CleanDoc EXCEPT !.imgs = Rep([alt |-> a], n)] :
             a \in {"none", "text"}, n \in {ImageMax, ImageMax + 1}}

LinkTexts ==
    { <<"C","l","i","c","k"," ","h","e","r","e"," ">>,
      <<"c","l","i","c","k"," ","h","e","r","e"," ","n","o","w">>,
      <<"\n"," ","R","E","A","D"," ","m","o","r","e","\t">>,
      <<"M","o","r","e">>,
      <<"l","i","n","k","s">>,
      <<"h","e","r","e">>,
      <<"w","h","e","r","e">>,
      <<>> }

LinkDocs == {[CleanDoc EXCEPT !.links = l] : l \in Seqs(LinkTexts, MaxLinks)}

\* The script elements a document with or without a head section can hold:
\* an external script has no text, an inline one no async or defer.
ScriptKinds(hasHead) ==
    {s \in [inHead : BOOLEAN, src : BOOLEAN, async : BOOLEAN, defer : BOOLEAN,
            length : {0, ScriptMax, ScriptMax + 1}] :
        /\ s.inHead => hasHead
        /\ s.src => s.length = 0
        /\ ~s.src => (~s.async /\ ~s.defer /\ s.length > 0)}

ScriptDocs ==
    UNION {{[CleanDoc EXCEPT !.hasHead = h, !.scripts = sc] :
               sc \in Seqs(ScriptKinds(h), MaxScripts)} : h \in BOOLEAN}

MetaDocs ==
    {[b EXCEPT !.metas = m, !.landmarks = l, !.styled = st] :
        b \in Bases, m \in SUBSET {"description", "viewport", "keywords"},
        l \in {{}, {"aside"}, {"nav", "footer"}, {"main", "header"}},
        st \in {0, StyleMax, StyleMax + 1}}

BlockingScript ==
    [inHead |-> TRUE, src |-> TRUE, async |-> FALSE, defer |-> FALSE, length |-> 0]

MixedDocs ==
    {[hasHead |-> TRUE, titles |-> t, metas |-> m, canonical |-> FALSE,
      imgs |-> i, links |-> l, landmarks |-> lm, headings |-> h,
      styled |-> st, scripts |-> sc] :
        t \in {<<>>, <<Rep("a", TitleMax)>>},
        m \in {{}, {"description", "viewport"}},
        i \in {<<>>, <<[alt |-> "none"]>>},
        l \in {<<>>, <<<<"h","e","r","e">>>>},
        lm \in {{}, {"main"}},
        h \in {<<>>, <<"H1">>, <<"H2", "H4", "H1", "H1">>},
        st \in {0, StyleMax + 1},
        sc \in {<<>>, <<BlockingScript>>}}

Docs ==
    TitleDocs \cup HeadingDocs \cup ImgDocs \cup LinkDocs \cup ScriptDocs
    \cup MetaDocs \cup MixedDocs

Markup(d) == [blank |-> FALSE, dom |-> d]

Blank == [blank |-> TRUE, dom |-> MinimalDoc]

MessyDoc ==
    [hasHead |-> TRUE, titles |-> <<<<"H","i">>>>, metas |-> {"viewport"},
     canonical |-> FALSE, imgs |-> <<[alt |-> "none"], [alt |-> "empty"]>>,
     links |-> <<<<"M","o","r","e">>>>, landmarks |-> {},
     headings |-> <<"H2", "H4">>, styled |-> StyleMax + 1,
     scripts |-> <<BlockingScript>>]

\* The pages of the application-level specification: typed, or fetched.
Pages == {Blank, Markup(MinimalDoc), Markup(CleanDoc), Markup(MessyDoc)}

(***************************************************************************)
(* Initial state: the page as loaded, with some markup in the textarea.    *)
(***************************************************************************)
InitPage ==
    /\ fetchBtn = [disabled |-> FALSE, text |-> "Fetch HTML"]
    /\ fetchError = [hidden |-> TRUE, text |-> ""]
    /\ fetchPc = "idle"
    /\ isProcessing = FALSE
    /\ runBtn = [disabled |-> FALSE, dimmed |-> FALSE]
    /\ view = [placeholderHidden |-> FALSE, resultsHidden |-> TRUE,
               processingHidden |-> TRUE]
    /\ timeline = <<>>
    /\ issuesContainer = EmptyContainer
    /\ audits = [s \in Slots |-> Idle]
    /\ reported = <<>>

Init == htmlInput \in Pages /\ InitPage

InitAnalyzer == htmlInput \in {Markup(d) : d \in Docs} /\ InitPage

(***************************************************************************)
(* runAudit.  Each action is the code between two suspension points.       *)
(***************************************************************************)
\* The invocation a click starts: the first that is not running.
FreeSlot(self) ==
    /\ audits[self].pc = "idle"
    /\ \A s \in Slots : s < self => audits[s].pc # "idle"

\* Lines 51-55: nothing to analyse, alert and return.
RunClickEmpty ==
    /\ ~runBtn.disabled
    /\ htmlInput.blank
    /\ UNCHANGED vars

\* Lines 51-60: startProcessing, the first timeline entry, first await.
RunClick(self) ==
    /\ ~runBtn.disabled
    /\ FreeSlot(self)
    /\ ~htmlInput.blank
    /\ startProcessing
    /\ timeline' = updateTimeline(<<>>, PhaseText[1], 0)
    /\ audits' = [audits EXCEPT ![self] =
                     [Idle EXCEPT !.pc = "pending", !.phase = 1,
                                  !.html = <<htmlInput>>]]
    /\ UNCHANGED <<htmlInput, fetchBtn, fetchError, fetchPc, issuesContainer,
                   reported>>

\* Lines 61, 76, 82, 88, 94, 100: after await updateTimeline(text, 0), wait
\* for the timer.
StartTimer(self) ==
    /\ audits[self].pc = "pending"
    /\ audits' = [audits EXCEPT ![self].pc = "timer"]
    /\ UNCHANGED <<htmlInput, fetchBtn, fetchError, fetchPc, isProcessing,
                   runBtn, view, timeline, issuesContainer, reported>>

\* Lines 63-66: the document is parsed and the step marked done.
ParseOk(self) ==
    /\ audits[self].pc = "timer"
    /\ audits[self].phase = 1
    /\ audits' = [audits EXCEPT ![self].doc = <<parseHtml(Head(audits[self].html))>>,
                                ![self].pc = "marked"]
    /\ timeline' = updateTimeline(timeline, PhaseText[1], 1)
    /\ UNCHANGED <<htmlInput, fetchBtn, fetchError, fetchPc, isProcessing,
                   runBtn, view, issuesContainer, reported>>

\* Lines 67-72: parseHtml threw; alert, resetView, return.  Whether the parser
\* throws is its own affair: either outcome is possible for any markup.
ParseFail(self) ==
    /\ audits[self].pc = "timer"
    /\ audits[self].phase = 1
    /\ resetView
    /\ audits' = [audits EXCEPT ![self] = Idle]
    /\ UNCHANGED <<htmlInput, fetchBtn, fetchError, fetchPc, timeline,
                   issuesContainer, reported>>

\* Lines 75, 81, 87, 93, 99: after await updateTimeline(text, 1), the entry
\* of the next step.
BeginPhase(self) ==
    /\ audits[self].pc = "marked"
    /\ audits[self].phase < Len(PhaseText)
    /\ timeline' = updateTimeline(timeline, PhaseText[audits[self].phase + 1], 0)
    /\ audits' = [audits EXCEPT ![self].phase = @ + 1, ![self].pc = "pending"]
    /\ UNCHANGED <<htmlInput, fetchBtn, fetchError, fetchPc, isProcessing,
                   runBtn, view, issuesContainer, reported>>

\* A checker has returned: the step is marked done (lines 78, 84, 90, 96).
Marked(self, next) ==
    /\ audits' = [audits EXCEPT ![self] = [next EXCEPT !.pc = "marked"]]
    /\ timeline' = updateTimeline(timeline, PhaseText[audits[self].phase], 1)
    /\ UNCHANGED <<htmlInput, fetchBtn, fetchError, fetchPc, isProcessing,
                   runBtn, view, issuesContainer, reported>>

\* Lines 77-78
RunSEO(self) ==
    /\ audits[self].pc = "timer"
    /\ audits[self].phase = 2
    /\ Marked(self, [audits[self] EXCEPT
                        !.seoIssues = checkSEO(Head(audits[self].doc)),
                        !.calls.seo = @ + 1])

\* Lines 83-84
RunAccessibility(self) ==
    /\ audits[self].pc = "timer"
    /\ audits[self].phase = 3
    /\ Marked(self, [audits[self] EXCEPT
                        !.a11yIssues = checkAccessibility(Head(audits[self].doc)),
                        !.calls.a11y = @ + 1])

\* Lines 89-90
RunStructure(self) ==
    /\ audits[self].pc = "timer"
    /\ audits[self].phase = 4
    /\ Marked(self, [audits[self] EXCEPT
                        !.structureIssues = checkStructure(Head(audits[self].doc)),
                        !.calls.structure = @ + 1])

\* Lines 95-96
RunPerformance(self) ==
    /\ audits[self].pc = "timer"
    /\ audits[self].phase = 5
    /\ Marked(self, [audits[self] EXCEPT
                        !.perfIssues = checkPerformance(Head(audits[self].doc)),
                        !.calls.perf = @ + 1])

\* Faulty variant of allIssues: the Performance group spread before the
\* Structure group.
allIssues_swapped(a) ==
    a.seoIssues \o a.a11yIssues \o a.perfIssues \o a.structureIssues

\* Lines 102-107
allIssues(a) ==
    a.seoIssues \o a.a11yIssues \o a.structureIssues \o a.perfIssues

\* Lines 102-109: the report is compiled and rendered; runAudit returns.
Compile(self) ==
    /\ audits[self].pc = "timer"
    /\ audits[self].phase = 6
    /\ renderResults(allIssues(audits[self]))
    /\ reported' = <<[html |-> Head(audits[self].html),
                      issues |-> allIssues(audits[self]),
                      calls |-> audits[self].calls]>>
    /\ audits' = [audits EXCEPT ![self] = Idle]
    /\ UNCHANGED <<htmlInput, fetchBtn, fetchError, fetchPc, timeline>>

(***************************************************************************)
(* handleFetchUrl                                                          *)
(***************************************************************************)
\* Lines 28-29: no URL typed.
FetchClickEmpty ==
    /\ ~fetchBtn.disabled
    /\ UNCHANGED vars

\* Lines 28-36
FetchClick ==
    /\ ~fetchBtn.disabled
    /\ fetchBtn' = [disabled |-> TRUE, text |-> "Fetching..."]
    /\ fetchError' = [fetchError EXCEPT !.hidden = TRUE]
    /\ fetchPc' = "fetch"
    /\ UNCHANGED <<htmlInput, isProcessing, runBtn, view, timeline,
                   issuesContainer, audits, reported>>

\* Lines 44-47
finally ==
    /\ fetchBtn' = [disabled |-> FALSE, text |-> "Fetch HTML"]
    /\ fetchPc' = "idle"

\* Lines 36-38: the response arrived and is ok.
FetchResponse ==
    /\ fetchPc = "fetch"
    /\ fetchPc' = "text"
    /\ UNCHANGED <<htmlInput, fetchBtn, fetchError, isProcessing, runBtn, view,
                   timeline, issuesContainer, audits, reported>>

\* Lines 38-39: the body arrived.
FetchText ==
    /\ fetchPc = "text"
    /\ \E page \in Pages : htmlInput' = page
    /\ finally
    /\ UNCHANGED <<fetchError, isProcessing, runBtn, view, timeline,
                   issuesContainer, audits, reported>>

\* Lines 40-43: fetch rejected, the response was not ok, or text() rejected.
FetchFail ==
    /\ fetchPc \in {"fetch", "text"}
    /\ fetchError' = [hidden |-> FALSE,
                      text |-> "Could not fetch URL (likely CORS). Please paste HTML manually."]
    /\ finally
    /\ UNCHANGED <<htmlInput, isProcessing, runBtn, view, timeline,
                   issuesContainer, audits, reported>>

(***************************************************************************)
(* Specifications.  Spec is the page with its two buttons.  SpecAnalyzer   *)
(* runs the audit on every document of Docs, to exercise the rules.        *)
(***************************************************************************)
Audit(self) ==
    \/ RunClick(self)
    \/ StartTimer(self)
    \/ ParseOk(self)
    \/ ParseFail(self)
    \/ BeginPhase(self)
    \/ RunSEO(self)
    \/ RunAccessibility(self)
    \/ RunStructure(self)
    \/ RunPerformance(self)
    \/ Compile(self)

Next ==
    \/ \E self \in Slots : Audit(self)
    \/ RunClickEmpty
    \/ FetchClickEmpty
    \/ FetchClick
    \/ FetchResponse
    \/ FetchText
    \/ FetchFail

Spec == Init /\ [][Next]_vars

NextAnalyzer == \E self \in Slots : Audit(self)

SpecAnalyzer == InitAnalyzer /\ [][NextAnalyzer]_vars

(***************************************************************************)
(* Properties                                                              *)
(***************************************************************************)
\* The number of issues of a list that carry a title.
Titled(issues, ttl) == Cardinality({i \in 1..Len(issues) : issues[i].title = ttl})

\* The issues of a list that carry one of some titles.
Among(issues, ttls) == LET hit(i) == i.title \in ttls IN SelectSeq(issues, hit)

\* The invocations in which a checker has returned.
SeoDone == {s \in Slots : audits[s].calls.seo > 0}
A11yDone == {s \in Slots : audits[s].calls.a11y > 0}
StructureDone == {s \in Slots : audits[s].calls.structure > 0}
PerfDone == {s \in Slots : audits[s].calls.perf > 0}

\* The rules in their enumerated order, by the titles each can emit, and the
\* category of each.
RuleTitles ==
    << {"Missing <title> tag", "Title too short", "Title too long"},
       {"Missing Meta Description"},
       {"Missing Viewport Meta Tag"},
       {"Images missing Alt text"},
       {"Non-descriptive Link Text"},
       {"No Semantic Landmarks Found"},
       {"Missing H1 Heading", "Multiple H1 Headings"},
       {"Skipped Heading Levels"},
       {"Heavy use of Inline Styles"},
       {"High Image Count"},
       {"Large Inline Scripts"},
       {"Render-blocking Scripts"} >>

RuleCategory ==
    <<"SEO", "SEO", "SEO", "Accessibility", "Accessibility", "Accessibility",
      "Structure", "Structure", "Structure",
      "Performance", "Performance", "Performance">>

RuleOf(issue) == CHOOSE r \in 1..Len(RuleTitles) : issue.title \in RuleTitles[r]

\* C1: the list handed to renderResults is the concatenation of the outputs
\* of checkSEO, checkAccessibility, checkStructure and checkPerformance on the
\* parsed document, in that order: along the list the rules appear in their
\* enumerated order, each at most once and each under its own category, so
\* the categories run SEO, Accessibility, Structure, Performance without
\* interleaving.
C1_GroupAndRuleOrder ==
    reported # <<>> =>
        LET is == reported[1].issues
            d  == parseHtml(reported[1].html)
        IN  /\ is = checkSEO(d) \o checkAccessibility(d) \o checkStructure(d)
                      \o checkPerformance(d)
            /\ \A i \in 1..Len(is) : \E r \in 1..Len(RuleTitles) : is[i].title \in RuleTitles[r]
            /\ \A i \in 1..Len(is) : is[i].category = RuleCategory[RuleOf(is[i])]
            /\ \A i, j \in 1..Len(is) : i < j => RuleOf(is[i]) < RuleOf(is[j])

\* C1 witness: a rendered list with issues of all four categories, two rules
\* of the Structure group among them.
C1_Witness ==
    /\ reported # <<>>
    /\ {reported[1].issues[i].category : i \in 1..Len(reported[1].issues)}
          = {"SEO", "Accessibility", "Structure", "Performance"}
    /\ Titled(reported[1].issues, "Multiple H1 Headings") = 1
    /\ Titled(reported[1].issues, "Skipped Heading Levels") = 1
    /\ Titled(reported[1].issues, "Heavy use of Inline Styles") = 1

\* The levels of the headings of a document, in document order.
Levels(doc) ==
    [i \in 1..Len(doc.headings) |->
        CHOOSE n \in 1..6 : HeadingTags[n] = doc.headings[i]]

\* Some heading is more than one level below the one before it, the first
\* being compared with level 0.
HasSkip(L) ==
    \E i \in 1..Len(L) : L[i] > (IF i = 1 THEN 0 ELSE L[i - 1]) + 1

\* The number of places where the sequence of levels skips.
Skips(L) ==
    Cardinality({i \in 1..Len(L) : L[i] > (IF i = 1 THEN 0 ELSE L[i - 1]) + 1})

\* C2: checkStructure emits 'Skipped Heading Levels' exactly when some
\* heading level exceeds its predecessor's (0 before the first) by more than
\* one, and then once only, however many skips there are.
C2_HeadingSkip ==
    \A s \in StructureDone :
        LET L == Levels(Head(audits[s].doc))
            n == Titled(audits[s].structureIssues, "Skipped Heading Levels")
        IN  /\ n = (IF HasSkip(L) THEN 1 ELSE 0)
            /\ L \in {<<1, 2, 4>>, <<3>>, <<2, 4>>} => n = 1
            /\ L \in {<<1, 2, 3>>, <<>>} => n = 0

\* C2 witness: checkStructure has run on headings with two skips and warned
\* once.
C2_Witness ==
    \E s \in StructureDone :
        /\ Skips(Levels(Head(audits[s].doc))) = 2
        /\ Titled(audits[s].structureIssues, "Skipped Heading Levels") = 1

\* The length of a text without its leading and trailing white space.
TrimmedLen(t) ==
    LET inked == {i \in 1..Len(t) : t[i] \notin WhiteSpace}
    IN  IF inked = {} THEN 0
        ELSE (CHOOSE hi \in inked : \A i \in inked : i <= hi)
             - (CHOOSE lo \in inked : \A i \in inked : lo <= i) + 1

TitleRuleTitles == {"Missing <title> tag", "Title too short", "Title too long"}

\* C3: with a title element whose text has trimmed length n, checkSEO emits
\* no title issue for 10 <= n <= 70, exactly one 'Title too short' warning
\* carrying n for n < 10, exactly one 'Title too long' warning for n > 70;
\* with no title element exactly one missing-title error; never two
\* title-related issues.
C3_TitleOutcome ==
    \A s \in SeoDone :
        LET d   == Head(audits[s].doc)
            ti  == Among(audits[s].seoIssues, TitleRuleTitles)
            n   == TrimmedLen(Head(d.titles))
        IN  /\ Len(ti) <= 1
            /\ d.titles = <<>> =>
                  /\ Len(ti) = 1
                  /\ ti[1].title = "Missing <title> tag"
                  /\ ti[1].severity = "error"
            /\ d.titles # <<>> =>
                  /\ (n >= 10 /\ n <= 70) => ti = <<>>
                  /\ n < 10 =>
                        /\ Len(ti) = 1
                        /\ ti[1].title = "Title too short"
                        /\ ti[1].severity = "warning"
                        /\ ti[1].description.values = <<n>>
                  /\ n > 70 =>
                        /\ Len(ti) = 1
                        /\ ti[1].title = "Title too long"
                        /\ ti[1].severity = "warning"

\* C3 witness: checkSEO has run on a padded title of exactly 70 characters
\* that begins with an ampersand, and emitted no title issue.
C3_Witness ==
    \E s \in SeoDone :
        LET d == Head(audits[s].doc)
        IN  /\ d.titles # <<>>
            /\ Len(Head(d.titles)) = 72
            /\ TrimmedLen(Head(d.titles)) = 70
            /\ \E i \in 1..Len(Head(d.titles)) : Head(d.titles)[i] = "&"
            /\ Among(audits[s].seoIssues, TitleRuleTitles) = <<>>

H1RuleTitles == {"Missing H1 Heading", "Multiple H1 Headings"}

\* C4: the number k of h1 elements decides the H1 outcome of checkStructure:
\* k = 0 one 'Missing H1 Heading' error, k = 1 nothing, k > 1 one 'Multiple
\* H1 Headings' warning carrying k; never both.
C4_H1Outcome ==
    \A s \in StructureDone :
        LET d  == Head(audits[s].doc)
            k  == Cardinality({i \in 1..Len(d.headings) : d.headings[i] = "H1"})
            hi == Among(audits[s].structureIssues, H1RuleTitles)
        IN  /\ Len(hi) <= 1
            /\ k = 0 => /\ Len(hi) = 1
                        /\ hi[1].title = "Missing H1 Heading"
                        /\ hi[1].severity = "error"
            /\ k = 1 => hi = <<>>
            /\ k > 1 => /\ Len(hi) = 1
                        /\ hi[1].title = "Multiple H1 Headings"
                        /\ hi[1].severity = "warning"
                        /\ hi[1].description.values = <<k>>

\* C4 witness: checkStructure has run on a document with three h1 elements.
C4_Witness ==
    \E s \in StructureDone :
        /\ Head(audits[s].doc).headings = <<"H1", "H1", "H1">>
        /\ Titled(audits[s].structureIssues, "Multiple H1 Headings") = 1

\* C5: the minimal document yields exactly five issues, in this order:
\* missing title, missing meta description, missing viewport (SEO errors),
\* no semantic landmarks (Accessibility, info), missing H1 (Structure,
\* error); no heading-skip, inline-style or Performance issue.
C5_MinimalDocument ==
    (reported # <<>> /\ parseHtml(reported[1].html) = MinimalDoc) =>
        [i \in 1..Len(reported[1].issues) |->
            <<reported[1].issues[i].category, reported[1].issues[i].severity,
              reported[1].issues[i].title>>]
        = << <<"SEO", "error", "Missing <title> tag">>,
             <<"SEO", "error", "Missing Meta Description">>,
             <<"SEO", "error", "Missing Viewport Meta Tag">>,
             <<"Accessibility", "info", "No Semantic Landmarks Found">>,
             <<"Structure", "error", "Missing H1 Heading">> >>

\* C5 witness: the report of the minimal document has been rendered.
C5_Witness ==
    /\ reported # <<>>
    /\ parseHtml(reported[1].html) = MinimalDoc
    /\ ~view.resultsHidden
    /\ Len(issuesContainer.sections) = 3

Once == [seo |-> 1, a11y |-> 1, structure |-> 1, perf |-> 1]

\* The checkers an invocation has called, from where it is.
CallsAt(a) ==
    LET done(p) == IF a.phase > p \/ (a.phase = p /\ a.pc = "marked") THEN 1 ELSE 0
    IN  [seo |-> done(2), a11y |-> done(3), structure |-> done(4), perf |-> done(5)]

\* No checker runs before the document is parsed, none runs twice, and what
\* the results pane shows is the complete list of an audit that called each
\* checker once.
C7_Complete ==
    /\ \A s \in Slots :
          /\ audits[s].calls = CallsAt(audits[s])
          /\ audits[s].doc = <<>> => audits[s].calls = NoCalls
    /\ ~view.resultsHidden =>
          /\ reported # <<>>
          /\ reported[1].calls = Once
          /\ issuesContainer = Painted(reported[1].issues)
          /\ LET d == parseHtml(reported[1].html)
             IN  /\ Among(reported[1].issues, UNION {RuleTitles[r] : r \in 1..3}) = checkSEO(d)
                 /\ Among(reported[1].issues, UNION {RuleTitles[r] : r \in 4..6}) = checkAccessibility(d)
                 /\ Among(reported[1].issues, UNION {RuleTitles[r] : r \in 7..9}) = checkStructure(d)
                 /\ Among(reported[1].issues, UNION {RuleTitles[r] : r \in 10..12}) = checkPerformance(d)

\* The last audit ended on a parse failure: none is running and the timeline
\* holds nothing but the parsing step, still unfinished.
ParseFailed ==
    /\ \A s \in Slots : audits[s].pc = "idle"
    /\ timeline = <<[text |-> PhaseText[1], class |-> "active"]>>

\* C7: evaluation is all-or-nothing.  After a parse failure no checker has
\* been called, the view is back on the placeholder and the container holds
\* what it held before (nothing, or an earlier complete report); a parsed
\* document goes through the four checkers in turn, once each, and the
\* results pane only ever shows the complete list of such an audit.
C7_AllOrNothing ==
    /\ C7_Complete
    /\ ParseFailed =>
          /\ view = [placeholderHidden |-> FALSE, resultsHidden |-> TRUE,
                     processingHidden |-> TRUE]
          /\ reported = <<>> => issuesContainer = EmptyContainer
          /\ reported # <<>> =>
                /\ issuesContainer = Painted(reported[1].issues)
                /\ reported[1].calls = Once

\* C7 witness: a parse failure after an earlier report: no audit runs, the
\* placeholder is shown, the timeline holds the one unfinished parsing step.
C7_Witness ==
    /\ ParseFailed
    /\ ~view.placeholderHidden /\ view.resultsHidden /\ view.processingHidden
    /\ reported # <<>>
    /\ Len(issuesContainer.sections) = 4

\* The five generic link texts.
GenericTexts ==
    { <<"c","l","i","c","k"," ","h","e","r","e">>,
      <<"r","e","a","d"," ","m","o","r","e">>,
      <<"m","o","r","e">>,
      <<"l","i","n","k">>,
      <<"h","e","r","e">> }

\* The text is g in some letter case, with only white space around it.
IsPadded(text, g) ==
    \E lo \in 1..(Len(text) + 1) :
        /\ lo + Len(g) - 1 <= Len(text)
        /\ \A i \in 1..(lo - 1) : text[i] \in WhiteSpace
        /\ \A k \in 1..Len(g) : LowerChar(text[lo + k - 1]) = g[k]
        /\ \A i \in (lo + Len(g))..Len(text) : text[i] \in WhiteSpace

LinkRuleTitles == {"Non-descriptive Link Text"}

\* C8: a link is generic exactly when its text, trimmed and lower-cased,
\* equals one of the five generic texts; checkAccessibility emits one warning
\* carrying the number of generic links when there are any, none otherwise.
C8_GenericLinks ==
    \A s \in A11yDone :
        LET links == Head(audits[s].doc).links
            n  == Cardinality({i \in 1..Len(links) :
                                  \E g \in GenericTexts : IsPadded(links[i], g)})
            li == Among(audits[s].a11yIssues, LinkRuleTitles)
        IN  /\ n = 0 => li = <<>>
            /\ n > 0 => /\ Len(li) = 1
                        /\ li[1].severity = "warning"
                        /\ li[1].description.values = <<n>>
            /\ links = << <<"C","l","i","c","k"," ","h","e","r","e"," ">> >> => Len(li) = 1
            /\ links = << <<"c","l","i","c","k"," ","h","e","r","e"," ","n","o","w">> >> => li = <<>>

\* C8 witness: checkAccessibility has run on 'Click here ' and
\* 'click here now' and counted one generic link.
C8_Witness ==
    \E s \in A11yDone :
        /\ Head(audits[s].doc).links =
              << <<"C","l","i","c","k"," ","h","e","r","e"," ">>,
                 <<"c","l","i","c","k"," ","h","e","r","e"," ","n","o","w">> >>
        /\ Among(audits[s].a11yIssues, LinkRuleTitles) = <<GenericLinks(1)>>

AltRuleTitles == {"Images missing Alt text"}

\* C9: with m img elements that have no alt attribute (alt="" has one),
\* checkAccessibility emits one error carrying m when m > 0 and no such issue
\* when m = 0.
C9_MissingAlt ==
    \A s \in A11yDone :
        LET imgs == Head(audits[s].doc).imgs
            m  == Cardinality({i \in 1..Len(imgs) : imgs[i].alt = "none"})
            ai == Among(audits[s].a11yIssues, AltRuleTitles)
        IN  /\ m = 0 => ai = <<>>
            /\ m > 0 => /\ Len(ai) = 1
                        /\ ai[1].category = "Accessibility"
                        /\ ai[1].severity = "error"
                        /\ ai[1].description.values = <<m>>

\* C9 witness: three img elements, two without alt and one with alt="",
\* and one error that carries 2.
C9_Witness ==
    \E s \in A11yDone :
        /\ Head(audits[s].doc).imgs =
              <<[alt |-> "none"], [alt |-> "empty"], [alt |-> "none"]>>
        /\ Among(audits[s].a11yIssues, AltRuleTitles) = <<MissingAlt(2)>>

BlockingRuleTitles == {"Render-blocking Scripts"}

\* C10: the render-blocking scripts are the script elements in the head that
\* have src and neither async nor defer; checkPerformance returns a list of
\* issues with one warning carrying their number when there are any, and
\* without such an issue otherwise, in particular when there is no head.
C10_BlockingScripts ==
    \A s \in PerfDone :
        LET d  == Head(audits[s].doc)
            b  == Cardinality({i \in 1..Len(d.scripts) :
                                  /\ d.hasHead /\ d.scripts[i].inHead
                                  /\ d.scripts[i].src
                                  /\ ~d.scripts[i].async /\ ~d.scripts[i].defer})
            bi == Among(audits[s].perfIssues, BlockingRuleTitles)
        IN  /\ \A i \in 1..Len(audits[s].perfIssues) :
                  audits[s].perfIssues[i].category = "Performance"
            /\ b = 0 => bi = <<>>
            /\ b > 0 => /\ Len(bi) = 1
                        /\ bi[1].severity = "warning"
                        /\ bi[1].description.values = <<b>>
            /\ ~d.hasHead => bi = <<>>

\* C10 witness: a blocking script in the head and an external script in the
\* body, and one warning that carries 1.
C10_Witness ==
    \E s \in PerfDone :
        LET sc == Head(audits[s].doc).scripts
        IN  /\ Len(sc) = 2
            /\ sc[1] = BlockingScript
            /\ sc[2] = [BlockingScript EXCEPT !.inHead = FALSE]
            /\ Among(audits[s].perfIssues, BlockingRuleTitles) = <<BlockingScripts(1)>>

\* The invocations of runAudit that have passed startProcessing and not yet
\* returned.
Running == {s \in Slots : audits[s].pc # "idle"}

\* C11: the busy state is released on every exit of an audit: the run button
\* is disabled exactly when isProcessing is true, and once no audit is running
\* isProcessing is false and the button is enabled.
C11_BusyReleased ==
    /\ runBtn.disabled <=> isProcessing
    /\ Running = {} => (~isProcessing /\ ~runBtn.disabled)

\* The timeline as one audit alone writes it: an entry for each step it has
\* begun, in order, all completed but the current one, which is completed
\* once marked.
TimelineOf(a) ==
    [i \in 1..a.phase |->
        [text  |-> PhaseText[i],
         class |-> IF i < a.phase \/ a.pc = "marked" THEN "completed" ELSE "active"]]

\* C12: at most one audit is in progress at any time.  The run button is
\* disabled from startProcessing until the audit returns, so under every
\* interleaving of run clicks, fetch clicks and timer callbacks no second
\* runAudit passes startProcessing meanwhile; the timeline holds the steps of
\* the one running audit and nothing else; and no audit runs on empty input.
C12_SingleAudit ==
    /\ Cardinality(Running) <= 1
    /\ Running # {} <=> runBtn.disabled
    /\ \A s \in Running :
          /\ ~Head(audits[s].html).blank
          /\ timeline = TimelineOf(audits[s])

\* C12 witness: during a second audit, at its Structure step, a fetch is in
\* flight and an earlier fetch has already replaced the markup under audit.
C12_Witness ==
    \E s \in Running :
        /\ audits[s].phase = 4
        /\ audits[s].pc = "timer"
        /\ fetchPc = "text"
        /\ htmlInput # Head(audits[s].html)
        /\ reported # <<>>

====
